---- MODULE Spec2Model ----
(***************************************************************************)
(* spit - Show Pictures In Terminal.                                       *)
(* A model of run() and its helpers in main.go: catalog construction, the  *)
(* render loop, command-template expansion, subprocess invocation and the  *)
(* status-line layout.                                                     *)
(*                                                                         *)
(* Strings are sequences of code points; a code point is written as a      *)
(* one-character string ("a", "%", " "), or as a named token for the code  *)
(* points that matter for width ("U+0301", "U+1F600") and for control      *)
(* characters ("ESC", "BEL").                                              *)
(***************************************************************************)
EXTENDS Integers, Sequences, FiniteSets, TLC

VARIABLES
    pc,            \* position of run(): see PcValues
    args,          \* flag.Args(), dropped once the catalog is built
    gOpts,         \* the settings (read-only after startup)
    pics,          \* the catalog
    curr,          \* current index
    last,          \* last rendered index
    b,             \* the byte last returned by reader.ReadByte()
    cols,          \* terminal columns as queried by the current render (0 outside one)
    rows,          \* terminal rows as queried by the current render (0 outside one)
    raw,           \* stdin is in raw mode
    altScreen,     \* the alternate screen is shown
    cursorHidden,  \* the cursor is hidden
    exitCode,      \* process exit status once pc = "exited"
    lastExec,      \* the execCmd call that has just returned, if any
    trace,         \* what the loop did since the last input byte was read
    statusRow,     \* what the last terminal row shows: "blank", "error" or "status"
    call           \* a function applied on its own: its inputs and its result

vars == <<pc, args, gOpts, pics, curr, last, b, cols, rows, raw, altScreen,
          cursorHidden, exitCode, lastExec, trace, statusRow, call>>

\* the state of run()
runVars == <<pc, args, gOpts, pics, curr, last, b, cols, rows, raw, altScreen,
             cursorHidden, exitCode, lastExec, trace, statusRow>>

\* ------------------------------------------------------------------------
\* Bounds
\* ------------------------------------------------------------------------
\* command-line arguments of a run
MaxArgs == 3
\* catalog lengths and steps of the navigation functions applied on their own
MaxN == 4
MaxSteps == 6
\* terminal widths of the status line laid out on its own
MaxCols == 12
\* bytes of a finite input stream, and arguments of a run that reads one
MaxInput == 3
MaxStreamArgs == 2

\* ------------------------------------------------------------------------
\* Strings
\* ------------------------------------------------------------------------
Max(a, c) == IF a >= c THEN a ELSE c
Min(a, c) == IF a <= c THEN a ELSE c

Digits == <<"0", "1", "2", "3", "4", "5", "6", "7", "8", "9">>

RECURSIVE ItoaNat(_)
ItoaNat(n) ==
    IF n < 10 THEN <<Digits[n + 1]>>
    ELSE ItoaNat(n \div 10) \o <<Digits[(n % 10) + 1]>>

\* strconv.Itoa
Itoa(n) == IF n < 0 THEN <<"-">> \o ItoaNat(0 - n) ELSE ItoaNat(n)

\* unicode.IsSpace, on the code points of the model
IsSpace(r) == r \in {" ", "\t", "\n"}

HasPrefix(s, p) == Len(s) >= Len(p) /\ SubSeq(s, 1, Len(p)) = p

Drop(s, k) == SubSeq(s, k + 1, Len(s))

\* strings.TrimSpace
RECURSIVE TrimLeft(_)
TrimLeft(s) == IF s # <<>> /\ IsSpace(s[1]) THEN TrimLeft(Tail(s)) ELSE s

RECURSIVE TrimRight(_)
TrimRight(s) ==
    IF s # <<>> /\ IsSpace(s[Len(s)]) THEN TrimRight(SubSeq(s, 1, Len(s) - 1))
    ELSE s

TrimSpace(s) == TrimRight(TrimLeft(s))

\* strings.Fields: the maximal runs of non-space code points, in order.
RECURSIVE FieldsFrom(_, _)
FieldsFrom(s, cur) ==
    IF s = <<>> THEN (IF cur = <<>> THEN <<>> ELSE <<cur>>)
    ELSE IF IsSpace(s[1])
         THEN (IF cur = <<>> THEN <<>> ELSE <<cur>>) \o FieldsFrom(Tail(s), <<>>)
         ELSE FieldsFrom(Tail(s), Append(cur, s[1]))

Fields(s) == FieldsFrom(s, <<>>)

\* strings.NewReplacer(old1, new1, ...).Replace(s): pairs is the sequence of
\* <<old, new>>; matches are taken left to right without overlap, and at one
\* position the olds are compared in argument order.
FirstMatch(pairs, s) ==
    LET hits == {i \in 1..Len(pairs) : HasPrefix(s, pairs[i][1])}
    IN  IF hits = {} THEN 0 ELSE CHOOSE i \in hits : \A j \in hits : i <= j

RECURSIVE Replace(_, _)
Replace(pairs, s) ==
    IF s = <<>> THEN <<>>
    ELSE LET m == FirstMatch(pairs, s)
         IN  IF m = 0 THEN <<s[1]>> \o Replace(pairs, Tail(s))
             ELSE pairs[m][2] \o Replace(pairs, Drop(s, Len(pairs[m][1])))

\* strings.ReplaceAll(s, old, new), old non-empty
ReplaceAll(s, old, new) == Replace(<<<<old, new>>>>, s)

\* strings.Replace(s, old, new, 1), old non-empty: the first occurrence only
RECURSIVE ReplaceFirst(_, _, _)
ReplaceFirst(s, old, new) ==
    IF s = <<>> THEN <<>>
    ELSE IF HasPrefix(s, old) THEN new \o Drop(s, Len(old))
    ELSE <<s[1]>> \o ReplaceFirst(Tail(s), old, new)

\* strings.Count(s, sub), sub non-empty: non-overlapping occurrences
RECURSIVE Count(_, _)
Count(s, sub) ==
    IF s = <<>> THEN 0
    ELSE IF HasPrefix(s, sub) THEN 1 + Count(Drop(s, Len(sub)), sub)
    ELSE Count(Tail(s), sub)

\* strings.Split(s, sep), sep non-empty
RECURSIVE SplitFrom(_, _, _)
SplitFrom(s, sep, cur) ==
    IF s = <<>> THEN <<cur>>
    ELSE IF HasPrefix(s, sep) THEN <<cur>> \o SplitFrom(Drop(s, Len(sep)), sep, <<>>)
    ELSE SplitFrom(Tail(s), sep, Append(cur, s[1]))

Split(s, sep) == SplitFrom(s, sep, <<>>)

\* strings.Repeat(" ", k)
Spaces(k) == [i \in 1..k |-> " "]

\* strings.ToLower on ASCII letters
UpperLetters == <<"A", "B", "C", "D", "E", "F", "G", "H", "I", "J", "K", "L", "M",
                  "N", "O", "P", "Q", "R", "S", "T", "U", "V", "W", "X", "Y", "Z">>
LowerLetters == <<"a", "b", "c", "d", "e", "f", "g", "h", "i", "j", "k", "l", "m",
                  "n", "o", "p", "q", "r", "s", "t", "u", "v", "w", "x", "y", "z">>

ToLowerRune(r) ==
    IF \E i \in 1..26 : UpperLetters[i] = r
    THEN LowerLetters[CHOOSE i \in 1..26 : UpperLetters[i] = r]
    ELSE r

ToLower(s) == [i \in 1..Len(s) |-> ToLowerRune(s[i])]

\* ------------------------------------------------------------------------
\* Paths (filepath.Abs, filepath.Ext, FileInfo.Name)
\* ------------------------------------------------------------------------
Cwd == <<"/", "w">>

Abs(p) == IF p # <<>> /\ p[1] = "/" THEN p ELSE Cwd \o <<"/">> \o p

\* the part of p after its last "/"
RECURSIVE Base(_)
Base(p) ==
    IF \E i \in 1..Len(p) : p[i] = "/"
    THEN Base(Drop(p, CHOOSE i \in 1..Len(p) : p[i] = "/"))
    ELSE p

\* filepath.Ext: the suffix beginning at the final dot of the final element
Ext(p) ==
    LET e    == Base(p)
        dots == {i \in 1..Len(e) : e[i] = "."}
    IN  IF dots = {} THEN <<>>
        ELSE Drop(e, (CHOOSE i \in dots : \A j \in dots : j <= i) - 1)

\* ------------------------------------------------------------------------
\* Navigation
\* ------------------------------------------------------------------------
next_clampAlways(wrapscroll, idx, n) == Min(idx + 1, n - 1)

next(wrapscroll, idx, n) ==
    IF wrapscroll THEN (idx + 1) % n ELSE Min(idx + 1, n - 1)

prev_truncatedMod(wrapscroll, idx, n) ==
    IF wrapscroll THEN (IF idx = 0 THEN -1 ELSE idx - 1) ELSE Max(0, idx - 1)

prev(wrapscroll, idx, n) ==
    IF wrapscroll THEN (idx - 1 + n) % n ELSE Max(0, idx - 1)

\* ------------------------------------------------------------------------
\* Display width
\* ------------------------------------------------------------------------
\* code points of category Mn (non-spacing marks) known to the model
MnRunes == {"U+0301", "U+0308"}
\* code points whose UTF-8 encoding is four bytes long
FourByteRunes == {"U+1F600", "U+1F431"}

runeWidth(r) ==
    IF r \in MnRunes THEN 0
    ELSE IF r \in FourByteRunes THEN 2
    ELSE 1

RECURSIVE displayWidth(_)
displayWidth(s) ==
    IF s = <<>> THEN 0 ELSE runeWidth(s[1]) + displayWidth(Tail(s))

\* ------------------------------------------------------------------------
\* Command templates
\* ------------------------------------------------------------------------
\* The replacer of generateCmd.
cmdReplacer(c, r, path) ==
    << <<<<"%", "%">>, <<"%">>>>,
       <<<<"%", "c">>, Itoa(c)>>,
       <<<<"%", "r">>, Itoa(r - 2)>>,
       <<<<"%", "f">>, path>> >>

generateCmd_expandFirst(s, c, r, path) ==
    IF s = <<>> THEN [name |-> <<>>, args |-> <<>>]
    ELSE LET parts == Fields(Replace(cmdReplacer(c, r, path), s))
         IN  IF Len(parts) < 2 THEN [name |-> parts[1], args |-> <<>>]
             ELSE [name |-> parts[1], args |-> Tail(parts)]

\* generateCmd: the closure of run().  A non-empty template holds at least
\* one field: loadConfig trims the values it stores.
generateCmd(s, c, r, path) ==
    IF s = <<>> THEN [name |-> <<>>, args |-> <<>>]
    ELSE LET fs    == Fields(s)
             parts == [i \in 1..Len(fs) |-> Replace(cmdReplacer(c, r, path), fs[i])]
         IN  IF Len(parts) < 2 THEN [name |-> parts[1], args |-> <<>>]
             ELSE [name |-> parts[1], args |-> Tail(parts)]

\* ------------------------------------------------------------------------
\* Subprocesses
\* ------------------------------------------------------------------------
\* What one invocation can do: cmd.Run() returns an error or not (runErr:
\* non-zero exit, or the command cannot be started), the bytes it wrote to
\* its stdout and stderr, and how os.Stdout.Write fares (wn bytes written,
\* werr an error returned; a short write returns an error).
ProcOut == {<<>>, <<"o", "k">>}
ProcErr == {<<>>, <<"w">>}

ExecOutcomes ==
    {o \in [runErr : BOOLEAN, out : ProcOut, errb : ProcErr, wn : 0..2, werr : BOOLEAN] :
        IF o.runErr \/ o.errb # <<>>
        \* Write is not called after a failed run: it has no outcome then
        THEN o.wn = 0 /\ ~o.werr
        ELSE o.wn <= Len(o.out) /\ (o.wn < Len(o.out) => o.werr)}

NoOutcome == [runErr |-> FALSE, out |-> <<>>, errb |-> <<>>, wn |-> 0, werr |-> FALSE]

execCmd_ignoreStderr(name, argv, o) ==
    IF TrimSpace(name) = <<>>
    THEN [spawned |-> FALSE, err |-> FALSE, written |-> <<>>]
    ELSE IF o.runErr
    THEN [spawned |-> TRUE, err |-> TRUE, written |-> <<>>]
    ELSE [spawned |-> TRUE, err |-> FALSE, written |-> o.out]

execCmd_noEmptyCheck(name, argv, o) ==
    IF name = <<>> \/ o.runErr \/ Len(o.errb) > 0
    THEN [spawned |-> TRUE, err |-> TRUE, written |-> <<>>]
    ELSE [spawned |-> TRUE, err |-> o.werr, written |-> SubSeq(o.out, 1, o.wn)]

\* execCmd: spawned tells whether a process was started, err whether the
\* returned error is non-nil, written the bytes that reached os.Stdout.
execCmd(name, argv, o) ==
    IF TrimSpace(name) = <<>>
    THEN [spawned |-> FALSE, err |-> FALSE, written |-> <<>>]
    ELSE IF o.runErr \/ Len(o.errb) > 0
    THEN [spawned |-> TRUE, err |-> TRUE, written |-> <<>>]
    ELSE [spawned |-> TRUE, err |-> o.werr, written |-> SubSeq(o.out, 1, o.wn)]

\* ------------------------------------------------------------------------
\* Status line
\* ------------------------------------------------------------------------
GapMarker == <<"%", "=">>

\* The replacer of printStatus.
statusReplacer(pic, idx, total) ==
    << <<<<"%", "%">>, <<"%">>>>,
       <<<<"%", "f">>, pic.name>>,
       <<<<"%", "h">>, Itoa(pic.height)>>,
       <<<<"%", "i">>, Itoa(idx)>>,
       <<<<"%", "s">>, Itoa(pic.size) \o <<"B">>>>,
       <<<<"%", "t">>, Itoa(total)>>,
       <<<<"%", "w">>, Itoa(pic.width)>> >>

\* lines 302-314: substitution, then N/A for unknown dimensions
substituted(statusline, pic, idx, total) ==
    LET s == Replace(statusReplacer(pic, idx, total), statusline)
    IN  IF pic.height = 0 /\ pic.width = 0
        THEN ReplaceAll(ReplaceAll(s, <<"0", "x", "0">>, <<"N", "/", "A">>),
                        <<"0", "X", "0">>, <<"N", "/", "A">>)
        ELSE s

\* lines 316-328: fault is the runtime panic of a slice start past the end
truncated(s, gaps, pic, truncatechar, c) ==
    LET excess == (displayWidth(s) - gaps * 2) - c
        start  == excess + displayWidth(truncatechar)
    IN  IF excess > 0
        THEN IF excess < displayWidth(pic.name)
             THEN IF start > Len(pic.name)
                  THEN [fault |-> TRUE, s |-> s]
                  ELSE [fault |-> FALSE,
                        s |-> ReplaceFirst(s, pic.name, truncatechar \o Drop(pic.name, start))]
             ELSE IF start > Len(s)
                  THEN [fault |-> TRUE, s |-> s]
                  ELSE [fault |-> FALSE, s |-> truncatechar \o Drop(s, start)]
        ELSE [fault |-> FALSE, s |-> s]

\* lines 330-347: the space runs and the joined line
RECURSIVE joinParts(_, _, _, _)
joinParts(parts, i, gapSize, rem) ==
    IF i > Len(parts) THEN <<>>
    ELSE Spaces(IF i - 2 < rem THEN gapSize + 1 ELSE gapSize) \o parts[i]
         \o joinParts(parts, i + 1, gapSize, rem)

\* lines 330-345: the number of spaces written before each part after the first
spaceRuns(s, gaps, c) ==
    LET free    == Max(c - (displayWidth(s) - gaps * 2), 0)
        gapSize == IF gaps > 0 THEN free \div gaps ELSE 0
        rem     == IF gaps > 0 THEN free % gaps ELSE 0
        parts   == Split(s, GapMarker)
    IN  [i \in 1..(Len(parts) - 1) |-> IF i - 1 < rem THEN gapSize + 1 ELSE gapSize]

justified(s, gaps, c) ==
    LET free    == Max(c - (displayWidth(s) - gaps * 2), 0)
        gapSize == IF gaps > 0 THEN free \div gaps ELSE 0
        rem     == IF gaps > 0 THEN free % gaps ELSE 0
        parts   == Split(s, GapMarker)
    IN  parts[1] \o joinParts(parts, 2, gapSize, rem)

\* printStatus up to its output: printed is FALSE for the empty template,
\* fault is a runtime panic, line is b.String().
statusLine(statusline, truncatechar, pic, idx, total, c) ==
    IF statusline = <<>> THEN [printed |-> FALSE, fault |-> FALSE, line |-> <<>>]
    ELSE LET s    == substituted(statusline, pic, idx, total)
             gaps == Count(statusline, GapMarker)
             t    == truncated(s, gaps, pic, truncatechar, c)
         IN  IF t.fault THEN [printed |-> FALSE, fault |-> TRUE, line |-> <<>>]
             ELSE [printed |-> TRUE, fault |-> FALSE, line |-> justified(t.s, gaps, c)]

\* ------------------------------------------------------------------------
\* Catalog
\* ------------------------------------------------------------------------
Extensions == { <<".", "g", "i", "f">>, <<".", "h", "e", "i", "c">>, <<".", "j", "p", "g">>,
                <<".", "j", "p", "e", "g">>, <<".", "p", "n", "g">>,
                <<".", "t", "i", "f", "f">>, <<".", "w", "e", "b", "p">> }

\* The files the arguments can name: what os.Open, Stat and
\* image.DecodeConfig find at the path.
File(path, openErr, isDir, decodeErr, size, width, height, format) ==
    [path |-> path, openErr |-> openErr, isDir |-> isDir, decodeErr |-> decodeErr,
     size |-> size, width |-> width, height |-> height, format |-> format]

FileA == File(<<"/", "a", ".", "p", "n", "g">>, FALSE, FALSE, FALSE, 512, 3, 2, "png")
FileB == File(<<"b", " ", "c", ".", "P", "N", "G">>, FALSE, FALSE, TRUE, 7, 0, 0, "")
FileN == File(<<"/", "n", ".", "t", "x", "t">>, FALSE, FALSE, TRUE, 4, 0, 0, "")
FileO == File(<<"/", "o", ".", "j", "p", "g">>, TRUE, FALSE, TRUE, 9, 0, 0, "")
FileD == File(<<"/", "d", ".", "g", "i", "f">>, FALSE, TRUE, TRUE, 0, 0, 0, "")

Disk == {FileA, FileB, FileN, FileO, FileD}

NoPicture == [name |-> <<>>, path |-> <<>>, size |-> 0, width |-> 0, height |-> 0,
              format |-> ""]

newPicture_dropUndecodable(f) ==
    LET absPath == Abs(f.path)
    IN  IF ToLower(Ext(absPath)) \notin Extensions \/ f.openErr \/ f.isDir \/ f.decodeErr
        THEN [notNil |-> FALSE, pic |-> NoPicture, err |-> TRUE]
        ELSE [notNil |-> TRUE,
              pic |-> [name |-> Base(f.path), path |-> absPath, size |-> f.size,
                       width |-> f.width, height |-> f.height, format |-> f.format],
              err |-> FALSE]

\* newPicture: notNil tells whether the returned *picture is non-nil, err
\* whether the returned error is.
newPicture(f) ==
    LET absPath == Abs(f.path)
    IN  IF ToLower(Ext(absPath)) \notin Extensions
        THEN [notNil |-> FALSE, pic |-> NoPicture, err |-> TRUE]
        ELSE IF f.openErr
        THEN [notNil |-> FALSE, pic |-> NoPicture, err |-> TRUE]
        ELSE IF f.isDir
        THEN [notNil |-> FALSE, pic |-> NoPicture, err |-> TRUE]
        ELSE [notNil |-> TRUE,
              pic |-> [name |-> Base(f.path), path |-> absPath, size |-> f.size,
                       width |-> IF f.decodeErr THEN 0 ELSE f.width,
                       height |-> IF f.decodeErr THEN 0 ELSE f.height,
                       format |-> IF f.decodeErr THEN "" ELSE f.format],
              err |-> f.decodeErr]

\* the matches of the fallback pattern "*": the files of the working directory
CwdFiles == <<FileB>>

\* lines 134-145 of run(): an argument names one file (filepath.Glob of a
\* pattern without metacharacters yields the path itself, and so does the
\* fallback for no match).
RECURSIVE collect(_)
collect(as) ==
    IF as = <<>> THEN <<>>
    ELSE LET p == newPicture(as[1])
         IN  (IF p.notNil THEN <<p.pic>> ELSE <<>>) \o collect(Tail(as))

\* lines 128-145 of run()
buildCatalog(as) == collect(IF Len(as) < 1 THEN CwdFiles ELSE as)

\* ------------------------------------------------------------------------
\* Settings
\* ------------------------------------------------------------------------
ProgName == <<"s", "p", "i", "t">>

CleanerTemplates   == { <<>>, <<"c", "l", "e", "a", "r">> }
PreviewerTemplates == { <<"p", "r", "e", "v", "i", "e", "w", "e", "r", " ", "-", "-", "s", "i",
                          "z", "e", "=", "%", "c", "x", "%", "r", " ", "%", "f">> }
StatusTemplates    == { <<"%", "f", " ", "%", "=", " ", "%", "i", "/", "%", "t">> }

Settings ==
    [cleaner : CleanerTemplates, previewer : PreviewerTemplates,
     statusline : StatusTemplates, truncatechar : {<<"<">>},
     title : {TRUE}, wrapscroll : BOOLEAN,
     errorfmt : {<<"ESC", "[", "3", "1", "m">>}]

\* term.GetSize: a failure, or <<columns, rows>>
GetSizeFails == <<-1, -1>>
Geometries == { <<20, 6>> }

\* ------------------------------------------------------------------------
\* Terminal output
\* ------------------------------------------------------------------------
Ev(op, row, col, text) == [op |-> op, row |-> row, col |-> col, text |-> text]

Reset == <<"ESC", "[", "0", "m">>

\* showError(s, line)
showError(s, line) == Ev("printAt", line, 1, gOpts.errorfmt \o s \o Reset)

ErrClearing == <<"E", "r", "r", "o", "r", " ", "c", "l", "e", "a", "r", "i", "n", "g", " ",
                 "s", "c", "r", "e", "e", "n">>

\* fmt.Sprintf("Error displaying %q", path)
ErrDisplaying(path) ==
    <<"E", "r", "r", "o", "r", " ", "d", "i", "s", "p", "l", "a", "y", "i", "n", "g", " ">>
    \o <<"\"">> \o path \o <<"\"">>

\* the events of one execCmd call: the process, then its forwarded output
execEvents(cmd, r) ==
    (IF r.spawned THEN <<Ev("spawn", 0, 0, cmd.name)>> ELSE <<>>)
    \o (IF r.written # <<>> THEN <<Ev("write", 0, 0, r.written)>> ELSE <<>>)

NoExec == [which |-> "none", cmd |-> [name |-> <<>>, args |-> <<>>],
           o |-> NoOutcome, r |-> [spawned |-> FALSE, err |-> FALSE, written |-> <<>>]]

\* ------------------------------------------------------------------------
\* run()
\* ------------------------------------------------------------------------
PcValues == {"start", "enter", "loop", "clean", "preview", "status", "read", "help", "exited"}

Keys == {"q", "l", "j", "h", "k", "g", "G", "?", "x"}
EOF == "EOF"

NoCall == [f |-> "none"]

ArgLists == UNION {[1..k -> Disk] : k \in 0..MaxArgs}

\* the state of run() when it is called with the arguments as
Started(as) ==
    /\ pc = "start"
    /\ args = as
    /\ gOpts \in Settings
    /\ pics = <<>>
    /\ curr = 0
    /\ last = -1
    /\ b = ""
    /\ cols = 0
    /\ rows = 0
    /\ raw = FALSE
    /\ altScreen = FALSE
    /\ cursorHidden = FALSE
    /\ exitCode = -1
    /\ lastExec = NoExec
    /\ trace = <<>>
    /\ statusRow = "blank"

Init ==
    /\ \E as \in ArgLists : Started(as)
    /\ call = NoCall

total == Len(pics)

\* os.Exit(code): the deferred calls do not run
OsExit(code) ==
    /\ pc' = "exited"
    /\ exitCode' = code
    /\ UNCHANGED <<raw, altScreen, cursorHidden>>

\* the deferred calls of run(), lines 159-161, in reverse order
Deferred ==
    /\ cursorHidden' = FALSE
    /\ altScreen' = FALSE
    /\ raw' = FALSE

\* return from run(), and so from main()
Return ==
    /\ pc' = "exited"
    /\ exitCode' = 0
    /\ Deferred

\* panic(err): the deferred calls run, then the runtime exits with status 2
Panic ==
    /\ pc' = "exited"
    /\ exitCode' = 2
    /\ Deferred

\* lines 128-150
BuildCatalog ==
    /\ pc = "start"
    /\ LET catalog == buildCatalog(args)
       IN  /\ pics' = catalog
           /\ IF Len(catalog) = 0
              THEN OsExit(1)
              ELSE /\ pc' = "enter"
                   /\ UNCHANGED <<exitCode, raw, altScreen, cursorHidden>>
    /\ UNCHANGED <<call, args, gOpts, curr, last, b, cols, rows, lastExec, trace, statusRow>>

EnterScreen_lastZero ==
    /\ pc = "enter"
    /\ altScreen' = TRUE
    /\ cursorHidden' = TRUE
    /\ \E makeRawErr \in BOOLEAN :
          IF makeRawErr
          THEN /\ pc' = "exited"
               /\ exitCode' = 1
               /\ UNCHANGED raw
          ELSE /\ pc' = "loop"
               /\ raw' = TRUE
               /\ UNCHANGED exitCode
    /\ curr' = 0
    /\ last' = 0
    /\ args' = <<>>
    /\ UNCHANGED <<call, gOpts, pics, b, cols, rows, lastExec, trace, statusRow>>

\* lines 152-164: the arguments are not used after the catalog loop
EnterScreen ==
    /\ pc = "enter"
    /\ altScreen' = TRUE
    /\ cursorHidden' = TRUE
    /\ \E makeRawErr \in BOOLEAN :
          IF makeRawErr
          THEN /\ pc' = "exited"
               /\ exitCode' = 1
               /\ UNCHANGED raw
          ELSE /\ pc' = "loop"
               /\ raw' = TRUE
               /\ UNCHANGED exitCode
    /\ curr' = 0
    /\ last' = -1
    /\ args' = <<>>
    /\ UNCHANGED <<call, gOpts, pics, b, cols, rows, lastExec, trace, statusRow>>

dirty_always(l, c) == TRUE

dirty_forward(l, c) == l < c

\* line 166: the dirty check
dirty(l, c) == l # c

\* lines 166-176: the dirty check, the title and the geometry query
BeginRender ==
    /\ pc = "loop"
    /\ dirty(last, curr)
    /\ last' = curr
    /\ trace' = trace \o (IF gOpts.title
                          THEN <<Ev("setTitle", 0, 0,
                                    ProgName \o <<" ", "-", " ">> \o pics[curr + 1].name)>>
                          ELSE <<>>)
    /\ lastExec' = NoExec
    /\ \E g \in Geometries \cup {GetSizeFails} :
          IF g = GetSizeFails
          THEN /\ Panic
               /\ UNCHANGED <<cols, rows>>
          ELSE /\ cols' = g[1]
               /\ rows' = g[2]
               /\ pc' = "clean"
               /\ UNCHANGED <<exitCode, raw, altScreen, cursorHidden>>
    /\ UNCHANGED <<call, args, gOpts, pics, curr, b, statusRow>>

\* line 166, condition false: on to line 211
SkipRender ==
    /\ pc = "loop"
    /\ ~dirty(last, curr)
    /\ pc' = "read"
    /\ lastExec' = NoExec
    /\ UNCHANGED <<call, args, gOpts, pics, curr, last, b, cols, rows, raw, altScreen,
                   cursorHidden, exitCode, trace, statusRow>>

ReportAndExit(evs, msg) ==
    /\ trace' = trace \o evs
    /\ OsExit(1)
    /\ cols' = 0
    /\ rows' = 0
    /\ UNCHANGED statusRow

ReportAndFallThrough(evs, msg) ==
    /\ trace' = trace \o evs \o <<showError(msg, rows)>>
    /\ statusRow' = "error"
    /\ pc' = (IF pc = "clean" THEN "preview" ELSE "status")
    /\ UNCHANGED <<cols, rows, exitCode, raw, altScreen, cursorHidden>>

\* lines 201-202 and 206-207: showError on the last row, then continue
ReportAndContinue(evs, msg) ==
    /\ trace' = trace \o evs \o <<showError(msg, rows)>>
    /\ statusRow' = "error"
    /\ pc' = "loop"
    /\ cols' = 0
    /\ rows' = 0
    /\ UNCHANGED <<exitCode, raw, altScreen, cursorHidden>>

\* lines 200-204
Clean ==
    /\ pc = "clean"
    /\ LET cmd == generateCmd(gOpts.cleaner, cols, rows, pics[curr + 1].path) IN
       \E o \in ExecOutcomes :
          LET r == execCmd(cmd.name, cmd.args, o)
          IN  /\ lastExec' = [which |-> "cleaner", cmd |-> cmd,
                              o |-> IF r.spawned THEN o ELSE NoOutcome, r |-> r]
              /\ IF r.err
                 THEN ReportAndContinue(execEvents(cmd, r), ErrClearing)
                 ELSE /\ trace' = trace \o execEvents(cmd, r)
                                        \o <<Ev("moveCursor", 1, 1, <<>>)>>
                      /\ pc' = "preview"
                      /\ UNCHANGED <<cols, rows, statusRow, exitCode, raw, altScreen,
                                     cursorHidden>>
    /\ UNCHANGED <<call, args, gOpts, pics, curr, last, b>>

\* lines 205-208
Preview ==
    /\ pc = "preview"
    /\ LET path == pics[curr + 1].path
           cmd  == generateCmd(gOpts.previewer, cols, rows, path) IN
       \E o \in ExecOutcomes :
          LET r == execCmd(cmd.name, cmd.args, o)
          IN  /\ lastExec' = [which |-> "previewer", cmd |-> cmd,
                              o |-> IF r.spawned THEN o ELSE NoOutcome, r |-> r]
              /\ IF r.err
                 THEN ReportAndContinue(execEvents(cmd, r), ErrDisplaying(path))
                 ELSE /\ trace' = trace \o execEvents(cmd, r)
                      /\ pc' = "status"
                      /\ UNCHANGED <<cols, rows, statusRow, exitCode, raw, altScreen,
                                     cursorHidden>>
    /\ UNCHANGED <<call, args, gOpts, pics, curr, last, b>>

\* line 209: printStatus(pics[curr], curr+1, total), lines 293-352
Status ==
    /\ pc = "status"
    /\ \E g \in Geometries \cup {GetSizeFails} :
          IF gOpts.statusline # <<>> /\ g = GetSizeFails
          THEN /\ Panic
               /\ UNCHANGED <<trace, statusRow>>
          ELSE LET st == statusLine(gOpts.statusline, gOpts.truncatechar,
                                    pics[curr + 1], curr + 1, total, g[1])
               IN  IF st.fault
                   THEN /\ Panic
                        /\ UNCHANGED <<trace, statusRow>>
                   ELSE /\ pc' = "read"
                        /\ trace' = trace \o
                              (IF st.printed
                               THEN <<Ev("moveCursor", g[2], 1, <<>>),
                                      Ev("clearLine", 0, 0, <<>>),
                                      Ev("printAt", g[2], 1, st.line)>>
                               ELSE <<>>)
                        /\ statusRow' = IF st.printed THEN "status" ELSE statusRow
                        /\ UNCHANGED <<exitCode, raw, altScreen, cursorHidden>>
    /\ cols' = 0
    /\ rows' = 0
    /\ lastExec' = NoExec
    /\ UNCHANGED <<call, args, gOpts, pics, curr, last, b>>

\* lines 228-232: the first half of the help key
helpEvents ==
    <<Ev("clear", 0, 0, <<>>), Ev("usage", 0, 0, <<>>), Ev("helpMessage", 0, 0, <<>>),
      Ev("prompt", 0, 0, <<>>)>>

navigate_otherNext(in, wrapscroll, idx, n) ==
    CASE in \in {"h", "k"} -> prev(wrapscroll, idx, n)
      [] in = "g" -> 0
      [] in = "G" -> n - 1
      [] OTHER -> next(wrapscroll, idx, n)

navigate_endPastLast(in, wrapscroll, idx, n) ==
    CASE in \in {"l", "j"} -> next(wrapscroll, idx, n)
      [] in \in {"h", "k"} -> prev(wrapscroll, idx, n)
      [] in = "g" -> 0
      [] in = "G" -> n
      [] OTHER -> idx

\* lines 215-225: the index after a navigation key, or after any other byte
navigate(in, wrapscroll, idx, n) ==
    CASE in \in {"l", "j"} -> next(wrapscroll, idx, n)
      [] in \in {"h", "k"} -> prev(wrapscroll, idx, n)
      [] in = "g" -> 0
      [] in = "G" -> n - 1
      [] OTHER -> idx

quits_onlyQuitKey(in) == in = "q"

\* lines 211-217: a read error and the quit key end the loop
quits(in) == in = EOF \/ in = "q"

\* lines 211-232: what reader.ReadByte() returned (EOF: an error) and its case
Read(in) ==
    /\ pc = "read"
    /\ b' = (IF in = EOF THEN b ELSE in)
    /\ IF quits(in)
       THEN /\ Return
            /\ trace' = <<>>
            /\ UNCHANGED <<curr, statusRow>>
       ELSE IF in = "?"
       THEN /\ raw' = FALSE
            /\ trace' = helpEvents
            /\ statusRow' = "blank"
            /\ pc' = "help"
            /\ UNCHANGED <<curr, exitCode, altScreen, cursorHidden>>
       ELSE /\ curr' = navigate(in, gOpts.wrapscroll, curr, total)
            /\ trace' = <<>>
            /\ pc' = "loop"
            /\ UNCHANGED <<exitCode, raw, altScreen, cursorHidden, statusRow>>
    /\ UNCHANGED <<args, gOpts, pics, last, cols, rows, lastExec>>

\* line 211: any byte, or the end of the input
ReadByte ==
    /\ \E in \in Keys \cup {EOF} : Read(in)
    /\ UNCHANGED call

\* lines 233-239: the line has been read, raw mode is entered again
LeaveHelp ==
    /\ pc = "help"
    /\ trace' = trace \o <<Ev("clear", 0, 0, <<>>)>>
    /\ \E makeRawErr \in BOOLEAN :
          IF makeRawErr
          THEN /\ OsExit(1)
               /\ UNCHANGED last
          ELSE /\ raw' = TRUE
               /\ last' = last - 1
               /\ pc' = "loop"
               /\ UNCHANGED <<exitCode, altScreen, cursorHidden>>
    /\ UNCHANGED <<args, gOpts, pics, curr, b, cols, rows, lastExec, statusRow>>

HelpReturn_keepLast ==
    /\ pc = "help"
    /\ trace' = trace \o <<Ev("clear", 0, 0, <<>>)>>
    /\ \E makeRawErr \in BOOLEAN :
          IF makeRawErr
          THEN OsExit(1)
          ELSE /\ raw' = TRUE
               /\ pc' = "loop"
               /\ UNCHANGED <<exitCode, altScreen, cursorHidden>>
    /\ UNCHANGED <<call, args, gOpts, pics, curr, last, b, cols, rows, lastExec, statusRow>>

\* lines 233-239
HelpReturn ==
    /\ LeaveHelp
    /\ UNCHANGED call

Next ==
    \/ BuildCatalog
    \/ EnterScreen
    \/ BeginRender
    \/ SkipRender
    \/ Clean
    \/ Preview
    \/ Status
    \/ ReadByte
    \/ HelpReturn

Spec == Init /\ [][Next]_vars

\* ------------------------------------------------------------------------
\* run() on a finite input stream
\* ------------------------------------------------------------------------
\* call.left is the number of bytes standard input still holds
StreamArgLists == UNION {[1..k -> Disk] : k \in 0..MaxStreamArgs}

StreamInit ==
    /\ \E as \in StreamArgLists : Started(as)
    /\ call \in [f : {"stdin"}, left : 0..MaxInput]

\* line 211: the next byte of the stream, or the error at its end
ReadStream ==
    /\ call.f = "stdin"
    /\ IF call.left = 0
       THEN Read(EOF) /\ UNCHANGED call
       ELSE /\ \E in \in Keys : Read(in)
            /\ call' = [call EXCEPT !.left = @ - 1]

\* line 233: bufio.NewReader(os.Stdin).ReadString('\n') takes the line, and
\* whatever else of the stream its buffer was filled with
HelpStream ==
    /\ call.f = "stdin"
    /\ LeaveHelp
    /\ \E k \in 0..call.left : call' = [call EXCEPT !.left = k]

StreamNext ==
    \/ BuildCatalog
    \/ EnterScreen
    \/ BeginRender
    \/ SkipRender
    \/ Clean
    \/ Preview
    \/ Status
    \/ ReadStream
    \/ HelpStream

\* run() moves on to another position: every step of StreamNext changes pc,
\* and every position but "exited" has a step
Advance == pc # "exited" /\ pc' \in PcValues \ {pc}

\* run() is sequential and is not suspended for ever: its next step is taken
\* once the blocking call before it (a subprocess, a read of the stream, the
\* geometry query) has returned
StreamSpec == StreamInit /\ [][StreamNext]_vars /\ WF_pc(Advance)

\* ------------------------------------------------------------------------
\* The functions applied on their own
\* ------------------------------------------------------------------------
\* run() is not running
Off ==
    /\ pc = "off"
    /\ args = <<>>
    /\ gOpts = CHOOSE o \in Settings : o.cleaner = <<>> /\ o.wrapscroll
    /\ pics = <<>>
    /\ curr = 0
    /\ last = -1
    /\ b = ""
    /\ cols = 0
    /\ rows = 0
    /\ raw = FALSE
    /\ altScreen = FALSE
    /\ cursorHidden = FALSE
    /\ exitCode = -1
    /\ lastExec = NoExec
    /\ trace = <<>>
    /\ statusRow = "blank"

\* next, applied repeatedly from a start index
NavInit ==
    /\ Off
    /\ \E w \in BOOLEAN, n \in 1..MaxN :
          \E i \in 0..(n - 1) :
             call = [f |-> "next", wrapscroll |-> w, n |-> n, start |-> i, idx |-> i,
                     steps |-> 0]

NavNext ==
    /\ call.f = "next"
    /\ call.steps < MaxSteps
    /\ call' = [call EXCEPT !.idx = next(call.wrapscroll, call.idx, call.n),
                            !.steps = @ + 1]
    /\ UNCHANGED runVars

NavSpec == NavInit /\ [][NavNext]_vars

\* generateCmd, applied to a template, a geometry and a path
ScenarioTemplate ==
    <<"p", "r", "e", "v", "i", "e", "w", "e", "r", " ", "-", "-", "s", "i", "z", "e", "=",
      "%", "c", "x", "%", "r", " ", "%", "f">>
ScenarioPath == <<"/", "i", "m", "g", "/", "a", ".", "p", "n", "g">>
SpacePath == <<"/", "w", "/", "b", " ", "c", ".", "P", "N", "G">>
PercentPath == <<"/", "p", "%", "c">>

CmdTemplates ==
    { <<>>,
      <<"c", "l", "e", "a", "r">>,
      ScenarioTemplate,
      <<"%", "f">>,
      <<"a", "%", "%", "c", " ", "%", "%">>,
      <<"x", " ", " ", "%", "r", "\t", "%", "f">>,
      <<"k", " ", "%", "c", "%", "r", " ", "%", "c">> }

CmdPaths == {ScenarioPath, SpacePath, PercentPath}

CmdGeometries == { <<80, 24>>, <<6, 1>>, <<0, 0>> }

CmdInit ==
    /\ Off
    /\ \E s \in CmdTemplates, g \in CmdGeometries, path \in CmdPaths :
          call = [f |-> "generateCmd", s |-> s, c |-> g[1], r |-> g[2], path |-> path,
                  done |-> FALSE, name |-> <<>>, args |-> <<>>]

Expand ==
    /\ call.f = "generateCmd"
    /\ ~call.done
    /\ LET cmd == generateCmd(call.s, call.c, call.r, call.path)
       IN  call' = [call EXCEPT !.done = TRUE, !.name = cmd.name, !.args = cmd.args]
    /\ UNCHANGED runVars

CmdSpec == CmdInit /\ [][Expand]_vars

\* printStatus, applied to a template, a picture and a terminal width
Pic(name, size, width, height) ==
    [name |-> name, path |-> <<"/">> \o name, size |-> size, width |-> width,
     height |-> height, format |-> IF width = 0 THEN "" ELSE "png"]

StatusPics ==
    { Pic(<<"c", "a", "t", ".", "p", "n", "g">>, 512, 0, 0),
      Pic(<<"a", "%", "=", "b">>, 7, 3, 2),
      Pic(<<"U+1F431", ".", "p", "n", "g">>, 40, 10, 0),
      Pic(<<"e", "U+0301", ".", "g", "i", "f">>, 9, 0, 5),
      Pic(<<"0", "x", "0", ".", "p", "n", "g">>, 0, 0, 0) }

StatusLineTemplates ==
    { <<>>,
      <<"%", "f">>,
      <<"%", "f", " ", "%", "=", " ", "%", "i", "/", "%", "t">>,
      <<"%", "f", " ", "%", "=", " ", "%", "w", "x", "%", "h", " ", " ", "%", "s", " ", " ",
        "%", "i", "/", "%", "t">>,
      <<"%", "=", "%", "f", "%", "=">>,
      <<"%", "i", "/", "%", "t", "%", "=", "%", "%", "%", "=", "%", "w", "X", "%", "h", "%", "=">> }

StatusCols == (0..MaxCols) \cup {40}

StatusInit ==
    /\ Off
    /\ \E s \in StatusLineTemplates, pic \in StatusPics, c \in StatusCols :
          call = [f |-> "printStatus", statusline |-> s, truncatechar |-> <<"<">>,
                  pic |-> pic, idx |-> 1, total |-> 3, cols |-> c, done |-> FALSE,
                  st |-> [printed |-> FALSE, fault |-> FALSE, line |-> <<>>]]

Layout ==
    /\ call.f = "printStatus"
    /\ ~call.done
    /\ call' = [call EXCEPT !.done = TRUE,
                            !.st = statusLine(call.statusline, call.truncatechar, call.pic,
                                              call.idx, call.total, call.cols)]
    /\ UNCHANGED runVars

StatusSpec == StatusInit /\ [][Layout]_vars

\* ------------------------------------------------------------------------
\* Properties
\* ------------------------------------------------------------------------
NavKeys == {"l", "j", "h", "k", "g", "G"}

LastOf(t) == t[Len(t)]

\* an event printed by showError
IsError(ev) == ev.op = "printAt" /\ HasPrefix(ev.text, gOpts.errorfmt)

\* the last thing the loop did was to report a render failure
RenderFailed == trace # <<>> /\ IsError(LastOf(trace))

NumSpawns(t) == Cardinality({i \in 1..Len(t) : t[i].op = "spawn"})

\* C1: a failing cleaner or previewer is reported by showError on the last
\* terminal row, the loop goes on to wait for the next input byte, and the
\* process does not exit because of it.
C1_RenderFailureReported ==
    [][ /\ (pc \in {"clean", "preview"} /\ lastExec'.r.err
              => /\ pc' = "loop"
                 /\ exitCode' = -1
                 /\ RenderFailed'
                 /\ LastOf(trace').row = rows
                 /\ LastOf(trace').col = 1
                 /\ statusRow' = "error")
        /\ (pc = "loop" /\ lastExec.r.err => pc' = "read" /\ exitCode' = -1) ]_vars

\* the loop waits for input with the error of a failed render on the status row
C1_Witness ==
    /\ pc = "read"
    /\ exitCode = -1
    /\ RenderFailed
    /\ statusRow = "error"

\* C2: a render begins only when currentIndex differs from
\* lastRenderedIndex, subprocesses are spawned only inside a render, and
\* after a key other than q and ? that leaves the index unchanged the loop
\* goes back to reading without a render.
C2_DirtyCheck ==
    [][ /\ (pc = "loop" /\ pc' # "read" => curr # last)
        /\ (pc' = "clean" /\ pc # "clean" => pc = "loop")
        /\ (pc' = "preview" /\ pc # "preview" => pc = "clean")
        /\ (pc' = "status" /\ pc # "status" => pc = "preview")
        /\ (NumSpawns(trace') > NumSpawns(trace) => pc \in {"clean", "preview"})
        /\ (pc = "read" /\ pc' = "loop" /\ curr' = curr => last' = curr')
        /\ (pc = "loop" /\ last = curr => pc' = "read" /\ trace' = trace) ]_vars

\* the loop reads again after a key that left the index where it was, and
\* nothing has been done since that key
C2_Witness ==
    /\ pc = "read"
    /\ b \in {"x", "g", "G", "l", "h"}
    /\ last = curr
    /\ trace = <<>>

\* C3: at every exit after the alternate screen was entered the terminal
\* is restored: cooked mode, main screen, cursor shown.
C3_TeardownOnEveryExit ==
    pc = "exited" => ~raw /\ ~altScreen /\ ~cursorHidden

\* C4: with wrap, next applied n times returns to the start index; without
\* wrap, next applied any number of times from n-1 stays at n-1.
C4_NextCycle ==
    call.f = "next" =>
        /\ (call.wrapscroll /\ call.steps = call.n => call.idx = call.start)
        /\ (~call.wrapscroll /\ call.start = call.n - 1 => call.idx = call.n - 1)

\* next has gone once around a catalog of three or more pictures
C4_Witness ==
    /\ call.f = "next"
    /\ call.wrapscroll
    /\ call.n >= 3
    /\ call.start = 1
    /\ call.steps = call.n
    /\ call.idx = 1

\* C5: the index after a navigation key: modulo n in either direction with
\* wrap (next and prev inverse of each other), clamped at n-1 and at 0
\* without, 0 after g and n-1 after G.
C5_Navigation ==
    [][ pc = "read" /\ pc' = "loop" =>
          LET n == Len(pics)
              w == gOpts.wrapscroll
          IN  /\ n >= 1
              /\ curr \in 0..(n - 1)
              /\ (b' \in {"l", "j"} =>
                    curr' = IF w THEN (curr + 1) % n
                            ELSE IF curr = n - 1 THEN n - 1 ELSE curr + 1)
              /\ (b' \in {"h", "k"} =>
                    curr' = IF w THEN (curr - 1) % n
                            ELSE IF curr = 0 THEN 0 ELSE curr - 1)
              /\ (w /\ b' \in {"l", "j"} /\ curr = n - 1 => curr' = 0)
              /\ (w /\ b' \in {"h", "k"} /\ curr = 0 => curr' = n - 1)
              /\ (w /\ b' \in {"l", "j"} => prev(w, curr', n) = curr)
              /\ (w /\ b' \in {"h", "k"} => next(w, curr', n) = curr)
              /\ (b' = "g" => curr' = 0)
              /\ (b' = "G" => curr' = n - 1) ]_vars

\* h or k has wrapped from index 0 to the last of three pictures
C5_Witness ==
    /\ pc = "loop"
    /\ b \in {"h", "k"}
    /\ gOpts.wrapscroll
    /\ Len(pics) = 3
    /\ last = 0
    /\ curr = 2

\* C6 as stated: an invocation fails exactly when the process fails or
\* writes to standard error.
C6_FailedIffProcessFailed ==
    lastExec.r.spawned =>
        (lastExec.r.err <=> (lastExec.o.runErr \/ lastExec.o.errb # <<>>))

\* C6: execCmd returns an error exactly when the process fails, writes to
\* standard error, or its captured output cannot be written to standard
\* output; after a failed process nothing is written, without an error the
\* captured output is written verbatim, and what is written is never
\* anything but captured standard output.
C6_ExecClassification ==
    lastExec.r.spawned =>
        LET o == lastExec.o
            r == lastExec.r
        IN  /\ (r.err <=> (o.runErr \/ o.errb # <<>> \/ o.werr))
            /\ (o.runErr \/ o.errb # <<>> =>
                  /\ r.written = <<>>
                  /\ Len(trace) >= 2
                  /\ IsError(LastOf(trace))
                  /\ trace[Len(trace) - 1].op = "spawn")
            /\ (~r.err => r.written = o.out)
            /\ (~r.err /\ o.out # <<>> =>
                  \E i \in 1..Len(trace) : trace[i] = Ev("write", 0, 0, o.out))
            /\ HasPrefix(o.out, r.written)

\* a process has exited with status 0 after writing to both streams, and
\* the invocation has failed with nothing forwarded
C6_Witness ==
    /\ lastExec.r.spawned
    /\ ~lastExec.o.runErr
    /\ lastExec.o.errb # <<>>
    /\ lastExec.o.out # <<>>
    /\ lastExec.r.err
    /\ lastExec.r.written = <<>>

\* C7: with an empty cleaner template the cleaner step expands to an empty
\* command name without arguments, spawns nothing, reports no error, and
\* the render goes on to the cursor move and the previewer.
C7_EmptyCleaner ==
    [][ pc = "clean" /\ gOpts.cleaner = <<>> =>
          /\ lastExec'.cmd = [name |-> <<>>, args |-> <<>>]
          /\ ~lastExec'.r.spawned
          /\ ~lastExec'.r.err
          /\ pc' = "preview"
          /\ trace' = Append(trace, Ev("moveCursor", 1, 1, <<>>))
          /\ statusRow' = statusRow ]_vars

\* a render with an empty cleaner template has passed the cleaner step
C7_Witness ==
    /\ pc = "preview"
    /\ gOpts.cleaner = <<>>
    /\ lastExec.which = "cleaner"
    /\ ~lastExec.r.spawned
    /\ LastOf(trace) = Ev("moveCursor", 1, 1, <<>>)

\* the number of whitespace-delimited fields of a template
NumFields(s) ==
    Cardinality({i \in 1..Len(s) : ~IsSpace(s[i]) /\ (i = 1 \/ IsSpace(s[i - 1]))})

\* the decimal numerals of the geometries of CmdGeometries
Decimal(n) ==
    CASE n = 80 -> <<"8", "0">>
      [] n = 22 -> <<"2", "2">>
      [] n = 6  -> <<"6">>
      [] n = 0  -> <<"0">>
      [] n = -1 -> <<"-", "1">>
      [] n = -2 -> <<"-", "2">>

\* C8: a template is split into whitespace-delimited fields and each field
\* is expanded on its own: %c the columns, %r the rows minus 2, %f the
\* path, %% a percent sign; the first field is the command name, the rest
\* the arguments, as many as the template has fields, and a path with
\* spaces stays one argument.
C8_TemplateExpansion ==
    call.f = "generateCmd" /\ call.done /\ call.s # <<>> =>
        LET out == <<call.name>> \o call.args
            fs  == Fields(call.s)
        IN  /\ Len(out) = NumFields(call.s)
            /\ Len(fs) = NumFields(call.s)
            /\ \A i \in 1..Len(out) :
                  /\ (fs[i] = <<"%", "c">> => out[i] = Decimal(call.c))
                  /\ (fs[i] = <<"%", "r">> => out[i] = Decimal(call.r - 2))
                  /\ (fs[i] = <<"%", "f">> => out[i] = call.path)
                  /\ (fs[i] = <<"%", "%">> => out[i] = <<"%">>)
                  /\ ((\A j \in 1..Len(fs[i]) : fs[i][j] # "%") => out[i] = fs[i])
            /\ (call.s = ScenarioTemplate /\ call.c = 80 /\ call.r = 24
                  /\ call.path = ScenarioPath
                  => /\ call.name = <<"p", "r", "e", "v", "i", "e", "w", "e", "r">>
                     /\ call.args = << <<"-", "-", "s", "i", "z", "e", "=", "8", "0", "x",
                                         "2", "2">>,
                                       <<"/", "i", "m", "g", "/", "a", ".", "p", "n", "g">> >>)
            /\ (call.s = <<"a", "%", "%", "c", " ", "%", "%">>
                  => call.name = <<"a", "%", "c">> /\ call.args = << <<"%">> >>)
            /\ (call.s = <<"k", " ", "%", "c", "%", "r", " ", "%", "c">> /\ call.c = 6
                  /\ call.r = 1
                  => call.args = << <<"6", "-", "1">>, <<"6">> >>)

\* the scenario template has been expanded for a path that contains a space
C8_Witness ==
    /\ call.f = "generateCmd"
    /\ call.done
    /\ call.s = ScenarioTemplate
    /\ call.path = SpacePath
    /\ call.c = 80
    /\ call.r = 24
    /\ call.name = <<"p", "r", "e", "v", "i", "e", "w", "e", "r">>
    /\ Len(call.args) = 2
    /\ call.args[2] = SpacePath

\* C9: with at least one gap marker in the template and content narrower
\* than the terminal, the emitted line is exactly as wide as the terminal.
C9_GapFill ==
    call.f = "printStatus" /\ call.done =>
        LET k       == Count(call.statusline, GapMarker)
            content == displayWidth(substituted(call.statusline, call.pic, call.idx,
                                                call.total)) - 2 * k
        IN  k >= 1 /\ content < call.cols
               => call.st.printed /\ displayWidth(call.st.line) = call.cols

\* C10 as stated: after a failed render any navigation key starts the
\* render cycle again.
C10_AnyNavigationKeyRetriggers ==
    [][ pc = "read" /\ RenderFailed /\ pc' = "loop" /\ b' \in NavKeys
          => last' # curr' ]_vars

\* C10: after a failed render nothing is invoked until a key is read; a
\* navigation key that changes the index makes the next iteration render,
\* and a render runs cleaner, cursor move, previewer, status in that order
\* for as long as no step fails.
C10_NoRetryUntilNavigation ==
    [][ /\ (pc = "loop" /\ lastExec.r.err
              => pc' = "read" /\ NumSpawns(trace') = NumSpawns(trace))
        /\ (pc = "read" /\ RenderFailed => NumSpawns(trace') = 0)
        /\ (pc = "read" /\ RenderFailed /\ pc' = "loop" /\ b' \in NavKeys /\ curr' # curr
              => last' # curr')
        /\ (pc = "loop" /\ last # curr
              => /\ last' = curr
                 /\ (pc' = "clean" \/ (pc' = "exited" /\ exitCode' = 2)))
        /\ (pc = "clean" /\ ~lastExec'.r.err
              => pc' = "preview" /\ LastOf(trace') = Ev("moveCursor", 1, 1, <<>>))
        /\ (pc = "preview" /\ ~lastExec'.r.err => pc' = "status")
        /\ (pc = "status" /\ pc' # "exited"
              => pc' = "read" /\ statusRow' = "status") ]_vars

\* a render is under way after a navigation key, with the error of the
\* failed render before it still on the status row
C10_Witness ==
    /\ pc = "clean"
    /\ b \in NavKeys
    /\ statusRow = "error"
    /\ last = curr

\* C11: the help key leaves the index alone, and once the overlay has
\* returned the next iteration starts the render of that same index before
\* any other byte is read.
C11_HelpForcesRender ==
    [][ /\ (pc = "read" /\ pc' = "help" => b' = "?" /\ curr' = curr /\ last' = last)
        /\ (pc = "help" /\ pc' # "exited"
              => pc' = "loop" /\ curr' = curr /\ last' # curr' /\ b' = b)
        /\ (pc = "loop" /\ trace # <<>> /\ LastOf(trace).op = "clear"
              => /\ curr' = curr
                 /\ last' = curr
                 /\ b' = b
                 /\ (pc' = "clean" \/ (pc' = "exited" /\ exitCode' = 2))) ]_vars

\* the render after the overlay is under way: the overlay's events are
\* followed by the title of the picture at the unchanged index
C11_Witness ==
    /\ pc = "clean"
    /\ b = "?"
    /\ curr = 1
    /\ last = curr
    /\ Len(trace) = Len(helpEvents) + 2
    /\ trace[Len(helpEvents) + 1].op = "clear"
    /\ LastOf(trace).op = "setTitle"

DimX == <<"%", "w", "x", "%", "h">>
DimUpperX == <<"%", "w", "X", "%", "h">>
NotAvailable == <<"N", "/", "A">>

\* the substituted line in which only the dimension placeholders of the
\* template stand for N/A
OnlyDimensionsReplaced(statusline, pic, idx, n) ==
    Replace(statusReplacer(pic, idx, n),
            ReplaceAll(ReplaceAll(statusline, DimX, NotAvailable), DimUpperX, NotAvailable))

\* C12: with a non-zero width or height the substituted line is left as it
\* is; with both zero the dimension placeholders read N/A and the rest of
\* the line, the file name included, is what the substitution produced; the
\* cat.png line at 40 columns is "cat.png", 19 spaces, "N/A  512B  1/3".
C12_NotAvailableOnlyForDimensions ==
    call.f = "printStatus" /\ call.done /\ call.statusline # <<>> =>
        LET pic == call.pic
            s   == substituted(call.statusline, pic, call.idx, call.total)
        IN  /\ (pic.width # 0 \/ pic.height # 0
                  => s = Replace(statusReplacer(pic, call.idx, call.total), call.statusline))
            /\ (pic.width = 0 /\ pic.height = 0
                  => s = OnlyDimensionsReplaced(call.statusline, pic, call.idx, call.total))
            /\ ((/\ call.statusline = <<"%", "f", " ", "%", "=", " ", "%", "w", "x", "%", "h",
                                         " ", " ", "%", "s", " ", " ", "%", "i", "/", "%", "t">>
                 /\ pic = Pic(<<"c", "a", "t", ".", "p", "n", "g">>, 512, 0, 0)
                 /\ call.cols = 40)
                  => /\ call.st.printed
                     /\ call.st.line = <<"c", "a", "t", ".", "p", "n", "g">> \o Spaces(19)
                           \o <<"N", "/", "A", " ", " ", "5", "1", "2", "B", " ", " ",
                                "1", "/", "3">>
                     /\ displayWidth(call.st.line) = 40)

\* the files the catalog loop is given: the arguments, or the working directory
Given == IF Len(args) < 1 THEN CwdFiles ELSE args

HasAcceptedExtension(f) == ToLower(Ext(Abs(f.path))) \in Extensions

StatusPrinted ==
    /\ trace' # trace
    /\ trace' # <<>>
    /\ LastOf(trace').op = "printAt"
    /\ ~IsError(LastOf(trace'))

\* C14: a render runs the cleaner, moves the cursor to (1,1), runs the
\* previewer and prints the status line, in that order; the previewer runs
\* only after a cleaner that succeeded, the status line is printed only
\* after a previewer that succeeded, a failed step ends the render, and no
\* byte is read from the start of a render to its last step.
C14_RenderOrder ==
    [][ /\ (pc = "clean"
              => /\ lastExec'.which = "cleaner"
                 /\ IF lastExec'.r.err
                    THEN pc' = "loop" /\ IsError(LastOf(trace')) /\ ~StatusPrinted
                    ELSE pc' = "preview" /\ LastOf(trace') = Ev("moveCursor", 1, 1, <<>>))
        /\ (lastExec'.which = "previewer"
              => /\ pc = "preview"
                 /\ lastExec.which = "cleaner"
                 /\ ~lastExec.r.err
                 /\ LastOf(trace) = Ev("moveCursor", 1, 1, <<>>)
                 /\ IF lastExec'.r.err
                    THEN pc' = "loop" /\ IsError(LastOf(trace')) /\ ~StatusPrinted
                    ELSE pc' = "status")
        /\ (pc = "preview" => lastExec'.which = "previewer")
        /\ (StatusPrinted
              => /\ pc = "status"
                 /\ lastExec.which = "previewer"
                 /\ ~lastExec.r.err
                 /\ \A i \in 1..Len(trace) : ~IsError(trace[i])
                 /\ pc' = "read")
        /\ (pc = "loop" /\ lastExec.r.err
              => pc' = "read" /\ trace' = trace)
        /\ (b' # b => pc = "read")
        /\ (pc \in {"clean", "preview", "status"} => b' = b /\ curr' = curr) ]_vars

\* a whole render: cleaner, cursor move, previewer and status line are in
\* the trace in this order, and the loop waits for a byte
C14_Witness ==
    /\ pc = "read"
    /\ statusRow = "status"
    /\ \E i, j, k \in 1..Len(trace) :
          /\ i < j /\ j < k /\ k < Len(trace)
          /\ trace[i].op = "spawn" /\ trace[i].text = gOpts.cleaner
          /\ trace[j] = Ev("moveCursor", 1, 1, <<>>)
          /\ trace[k].op = "spawn" /\ trace[k].text # gOpts.cleaner
          /\ LastOf(trace).op = "printAt" /\ LastOf(trace).row = 6

\* C15: the loop is entered with last = -1 and the index 0, so its first
\* iteration renders that picture; when the first byte is read the render
\* has printed the status line, or has reported the step that failed.
C15_InitialRender ==
    [][ /\ (pc = "enter" /\ pc' = "loop"
              => last' = -1 /\ curr' = 0 /\ b' = "" /\ trace' = <<>>)
        /\ (pc = "loop" /\ b = "" /\ trace = <<>>
              => /\ last \notin 0..(Len(pics) - 1)
                 /\ curr' = curr
                 /\ last' = curr
                 /\ b' = ""
                 /\ (pc' = "clean" \/ (pc' = "exited" /\ exitCode' = 2)))
        /\ (pc = "read" /\ b = ""
              => /\ last = 0 /\ curr = 0
                 /\ trace # <<>>
                 /\ trace[1] = Ev("setTitle", 0, 0, ProgName \o <<" ", "-", " ">> \o pics[1].name)
                 /\ \/ RenderFailed
                    \/ /\ statusRow = "status"
                       /\ LastOf(trace).op = "printAt"
                       /\ \E i \in 1..Len(trace) : trace[i] = Ev("moveCursor", 1, 1, <<>>)) ]_vars

\* the first picture of three is drawn and its status line printed, and no
\* byte has been read
C15_Witness ==
    /\ pc = "read"
    /\ b = ""
    /\ Len(pics) = 3
    /\ last = 0
    /\ statusRow = "status"
    /\ NumSpawns(trace) >= 1

\* C16: a byte that is not a key leaves curr and last as they are, the
\* terminal untouched and no process started, and the next iteration goes
\* straight back to the read.
C16_UnrecognizedByte ==
    [][ /\ (pc = "read" /\ pc' = "loop" /\ b' \notin NavKeys
              => /\ curr' = curr /\ last' = last
                 /\ trace' = <<>>
                 /\ lastExec' = NoExec
                 /\ statusRow' = statusRow
                 /\ raw' = raw /\ altScreen' = altScreen /\ cursorHidden' = cursorHidden
                 /\ pics' = pics)
        /\ (pc = "loop" /\ b \notin NavKeys \cup {"", "?"} /\ trace = <<>>
              => /\ pc' = "read"
                 /\ curr' = curr /\ last' = last
                 /\ trace' = <<>>
                 /\ lastExec' = NoExec
                 /\ statusRow' = statusRow) ]_vars

\* the loop waits again after an unrecognized byte, the third picture and
\* its status line still shown
C16_Witness ==
    /\ pc = "read"
    /\ b = "x"
    /\ curr = 2
    /\ last = 2
    /\ trace = <<>>
    /\ statusRow = "status"

\* C17: the quit key and the end of the stream end the loop at once, with
\* status 0 and without another render, whatever the state of the last
\* render; nothing happens after the exit; and on a finite input stream
\* the program eventually exits.
C17_Terminates ==
    /\ <>(pc = "exited")
    /\ [][ /\ (pc = "read" /\ call.left = 0
                  => pc' = "exited" /\ exitCode' = 0 /\ trace' = <<>>)
            /\ (pc = "read" /\ b' = "q"
                  => pc' = "exited" /\ exitCode' = 0 /\ trace' = <<>>)
            /\ (pc = "exited" => pc' = "exited" /\ trace' = trace) ]_vars

\* the quit key was read with the error of a failed render on the status row
C17_Witness ==
    /\ pc = "exited"
    /\ exitCode = 0
    /\ b = "q"
    /\ statusRow = "error"
    /\ ~altScreen /\ ~raw

\* C19: once the catalog is built it is never changed, and in the loop the
\* current index is an index of the catalog before and after every step,
\* so that pics[curr] of the render is in range.
C19_IndexInRange ==
    [][ /\ (pc # "start" => pics' = pics)
        /\ (pc \notin {"start", "enter", "exited"}
              => /\ Len(pics) >= 1
                 /\ curr \in 0..(Len(pics) - 1)
                 /\ curr' \in 0..(Len(pics) - 1))
        /\ (pc = "loop" /\ pc' = "clean" => (curr + 1) \in DOMAIN pics) ]_vars

\* the last of three pictures is being rendered after a key moved there
C19_Witness ==
    /\ pc = "clean"
    /\ Len(pics) = 3
    /\ curr = 2
    /\ b \in NavKeys
    /\ gOpts.wrapscroll

RECURSIVE SumOf(_)
SumOf(ns) == IF ns = <<>> THEN 0 ELSE ns[1] + SumOf(Tail(ns))

\* parts[1], then each further part after its run of spaces
RECURSIVE Interleave(_, _)
Interleave(parts, runs) ==
    IF Len(parts) = 1 THEN parts[1]
    ELSE parts[1] \o Spaces(runs[1]) \o Interleave(Tail(parts), Tail(runs))

\* the line of the finished call after substitution and truncation
Fitted ==
    truncated(substituted(call.statusline, call.pic, call.idx, call.total),
              Count(call.statusline, GapMarker), call.pic, call.truncatechar, call.cols).s

\* C18: the emitted line is the truncated line with a run of spaces for
\* each gap marker of the template; the runs sum to free, the first
\* free mod gapCount of them are one longer than the rest; without a gap
\* marker the truncated line is emitted as it is.
C18_FreeColumnsSplit ==
    call.f = "printStatus" /\ call.done /\ call.st.printed =>
        LET gaps == Count(call.statusline, GapMarker)
            free == Max(call.cols - (displayWidth(Fitted) - 2 * gaps), 0)
            runs == spaceRuns(Fitted, gaps, call.cols)
        IN  /\ call.st.line = Interleave(Split(Fitted, GapMarker), runs)
            /\ (gaps > 0 => SumOf(runs) = free)
            /\ \A i, j \in 1..Len(runs) :
                  /\ runs[i] - runs[j] <= 1
                  /\ (i < j => runs[i] >= runs[j])
            /\ (gaps > 0 => Cardinality({i \in 1..Len(runs) : runs[i] > free \div gaps})
                               = free % gaps)
            /\ (gaps = 0 => call.st.line = Fitted)

\* C20: when the substituted line is wider than the terminal, the emitted
\* line is at most as wide as the terminal.
C20_TruncatedLineFits ==
    call.f = "printStatus" /\ call.done /\ call.st.printed =>
        LET gaps   == Count(call.statusline, GapMarker)
            excess == (displayWidth(substituted(call.statusline, call.pic, call.idx,
                                                call.total)) - 2 * gaps) - call.cols
        IN  excess > 0 => displayWidth(call.st.line) <= call.cols

\* C21: when the line is truncated, the slice start excess +
\* displayWidth(truncatechar) is at most the number of code points of the
\* string that is cut, the name or the whole line, and printStatus gets to
\* print its line.
C21_SliceInRange ==
    call.f = "printStatus" /\ call.done /\ call.statusline # <<>> =>
        LET s      == substituted(call.statusline, call.pic, call.idx, call.total)
            gaps   == Count(call.statusline, GapMarker)
            excess == (displayWidth(s) - 2 * gaps) - call.cols
            start  == excess + displayWidth(call.truncatechar)
        IN  /\ (excess > 0 /\ excess < displayWidth(call.pic.name)
                  => start <= Len(call.pic.name))
            /\ (excess > 0 /\ excess >= displayWidth(call.pic.name) => start <= Len(s))
            /\ ~call.st.fault
            /\ call.st.printed

====
